---- MODULE Spec2Model ----
(***************************************************************************)
(* Model of mingw64/opt/lib/python3.9/_sysconfigdata__win32_.py: the       *)
(* embedded build_time_vars table and the module-level loop that rewrites  *)
(* the build-time install prefix in the keys of keys_to_replace to         *)
(* sys.prefix.                                                             *)
(*                                                                         *)
(* A Python str is a sequence of one-character strings; a dict value is a  *)
(* tagged record, StrV(s) for a str and IntV(n) for an int, so that values *)
(* of the two types compare unequal.  A dict is a function whose DOMAIN is *)
(* the set of keys present.                                                *)
(***************************************************************************)
EXTENDS Integers, Sequences, FiniteSets, TLC

StrV(s) == [type |-> "str", s |-> s]

IntV(n) == [type |-> "int", n |-> n]

IsStr(v) == v.type = "str"

(***************************************************************************)
(* The embedded literal (lines 3-917).  Of its 710 entries the model keeps *)
(* the 20 keys of keys_to_replace, every unlisted key whose value starts   *)
(* with the build-time prefix (prefix, prefix_b2h, VENVLAUNCHERDIR), one   *)
(* unlisted key that holds the build-time prefix in the middle (LDFLAGS),  *)
(* and unlisted str and int entries that do not hold it.                   *)
(***************************************************************************)

\* 'BINDIR': 'C:/buildroot/x86_64-1320-win32-seh-ucrt-rt_v11-rev0/mingw64/opt/bin'
V_BINDIR ==
  StrV(
    <<"C",":","/","b","u","i","l","d","r","o","o","t","/","x","8","6","_","6","4","-","1","3",
      "2","0","-","w","i","n","3","2","-","s","e","h","-","u","c","r","t","-","r","t","_","v",
      "1","1","-","r","e","v","0","/","m","i","n","g","w","6","4","/","o","p","t","/","b","i",
      "n">>)

\* 'BINLIBDEST': 'C:/buildroot/x86_64-1320-win32-seh-ucrt-rt_v11-rev0/mingw64/opt/lib/python3.9'
V_BINLIBDEST ==
  StrV(
    <<"C",":","/","b","u","i","l","d","r","o","o","t","/","x","8","6","_","6","4","-","1","3",
      "2","0","-","w","i","n","3","2","-","s","e","h","-","u","c","r","t","-","r","t","_","v",
      "1","1","-","r","e","v","0","/","m","i","n","g","w","6","4","/","o","p","t","/","l","i",
      "b","/","p","y","t","h","o","n","3",".","9">>)

\* 'CONFINCLUDEDIR': 'C:/buildroot/x86_64-1320-win32-seh-ucrt-rt_v11-rev0/mingw64/opt/include'
V_CONFINCLUDEDIR ==
  StrV(
    <<"C",":","/","b","u","i","l","d","r","o","o","t","/","x","8","6","_","6","4","-","1","3",
      "2","0","-","w","i","n","3","2","-","s","e","h","-","u","c","r","t","-","r","t","_","v",
      "1","1","-","r","e","v","0","/","m","i","n","g","w","6","4","/","o","p","t","/","i","n",
      "c","l","u","d","e">>)

\* 'CONFINCLUDEPY': 'C:/buildroot/x86_64-1320-win32-seh-ucrt-rt_v11-rev0/mingw64/opt/include/python3.9'
V_CONFINCLUDEPY ==
  StrV(
    <<"C",":","/","b","u","i","l","d","r","o","o","t","/","x","8","6","_","6","4","-","1","3",
      "2","0","-","w","i","n","3","2","-","s","e","h","-","u","c","r","t","-","r","t","_","v",
      "1","1","-","r","e","v","0","/","m","i","n","g","w","6","4","/","o","p","t","/","i","n",
      "c","l","u","d","e","/","p","y","t","h","o","n","3",".","9">>)

\* 'DESTDIRS': 'C:/buildroot/x86_64-1320-win32-seh-ucrt-rt_v11-rev0/mingw64/opt C:/buildroot/x86_64-1...'
V_DESTDIRS ==
  StrV(
    <<"C",":","/","b","u","i","l","d","r","o","o","t","/","x","8","6","_","6","4","-","1","3",
      "2","0","-","w","i","n","3","2","-","s","e","h","-","u","c","r","t","-","r","t","_","v",
      "1","1","-","r","e","v","0","/","m","i","n","g","w","6","4","/","o","p","t"," ","C",":",
      "/","b","u","i","l","d","r","o","o","t","/","x","8","6","_","6","4","-","1","3","2","0",
      "-","w","i","n","3","2","-","s","e","h","-","u","c","r","t","-","r","t","_","v","1","1",
      "-","r","e","v","0","/","m","i","n","g","w","6","4","/","o","p","t","/","l","i","b"," ",
      "C",":","/","b","u","i","l","d","r","o","o","t","/","x","8","6","_","6","4","-","1","3",
      "2","0","-","w","i","n","3","2","-","s","e","h","-","u","c","r","t","-","r","t","_","v",
      "1","1","-","r","e","v","0","/","m","i","n","g","w","6","4","/","o","p","t","/","l","i",
      "b","/","p","y","t","h","o","n","3",".","9"," ","C",":","/","b","u","i","l","d","r","o",
      "o","t","/","x","8","6","_","6","4","-","1","3","2","0","-","w","i","n","3","2","-","s",
      "e","h","-","u","c","r","t","-","r","t","_","v","1","1","-","r","e","v","0","/","m","i",
      "n","g","w","6","4","/","o","p","t","/","l","i","b","/","p","y","t","h","o","n","3",".",
      "9","/","l","i","b","-","d","y","n","l","o","a","d">>)

\* 'DESTLIB': 'C:/buildroot/x86_64-1320-win32-seh-ucrt-rt_v11-rev0/mingw64/opt/lib/python3.9'
V_DESTLIB ==
  StrV(
    <<"C",":","/","b","u","i","l","d","r","o","o","t","/","x","8","6","_","6","4","-","1","3",
      "2","0","-","w","i","n","3","2","-","s","e","h","-","u","c","r","t","-","r","t","_","v",
      "1","1","-","r","e","v","0","/","m","i","n","g","w","6","4","/","o","p","t","/","l","i",
      "b","/","p","y","t","h","o","n","3",".","9">>)

\* 'DESTSHARED': 'C:/buildroot/x86_64-1320-win32-seh-ucrt-rt_v11-rev0/mingw64/opt/lib/python3.9/lib-dyn...'
V_DESTSHARED ==
  StrV(
    <<"C",":","/","b","u","i","l","d","r","o","o","t","/","x","8","6","_","6","4","-","1","3",
      "2","0","-","w","i","n","3","2","-","s","e","h","-","u","c","r","t","-","r","t","_","v",
      "1","1","-","r","e","v","0","/","m","i","n","g","w","6","4","/","o","p","t","/","l","i",
      "b","/","p","y","t","h","o","n","3",".","9","/","l","i","b","-","d","y","n","l","o","a",
      "d">>)

\* 'INCLDIRSTOMAKE': 'C:/buildroot/x86_64-1320-win32-seh-ucrt-rt_v11-rev0/mingw64/opt/include C:/buildroot/...'
V_INCLDIRSTOMAKE ==
  StrV(
    <<"C",":","/","b","u","i","l","d","r","o","o","t","/","x","8","6","_","6","4","-","1","3",
      "2","0","-","w","i","n","3","2","-","s","e","h","-","u","c","r","t","-","r","t","_","v",
      "1","1","-","r","e","v","0","/","m","i","n","g","w","6","4","/","o","p","t","/","i","n",
      "c","l","u","d","e"," ","C",":","/","b","u","i","l","d","r","o","o","t","/","x","8","6",
      "_","6","4","-","1","3","2","0","-","w","i","n","3","2","-","s","e","h","-","u","c","r",
      "t","-","r","t","_","v","1","1","-","r","e","v","0","/","m","i","n","g","w","6","4","/",
      "o","p","t","/","i","n","c","l","u","d","e"," ","C",":","/","b","u","i","l","d","r","o",
      "o","t","/","x","8","6","_","6","4","-","1","3","2","0","-","w","i","n","3","2","-","s",
      "e","h","-","u","c","r","t","-","r","t","_","v","1","1","-","r","e","v","0","/","m","i",
      "n","g","w","6","4","/","o","p","t","/","i","n","c","l","u","d","e","/","p","y","t","h",
      "o","n","3",".","9"," ","C",":","/","b","u","i","l","d","r","o","o","t","/","x","8","6",
      "_","6","4","-","1","3","2","0","-","w","i","n","3","2","-","s","e","h","-","u","c","r",
      "t","-","r","t","_","v","1","1","-","r","e","v","0","/","m","i","n","g","w","6","4","/",
      "o","p","t","/","i","n","c","l","u","d","e","/","p","y","t","h","o","n","3",".","9">>)

\* 'INCLUDEDIR': 'C:/buildroot/x86_64-1320-win32-seh-ucrt-rt_v11-rev0/mingw64/opt/include'
V_INCLUDEDIR ==
  StrV(
    <<"C",":","/","b","u","i","l","d","r","o","o","t","/","x","8","6","_","6","4","-","1","3",
      "2","0","-","w","i","n","3","2","-","s","e","h","-","u","c","r","t","-","r","t","_","v",
      "1","1","-","r","e","v","0","/","m","i","n","g","w","6","4","/","o","p","t","/","i","n",
      "c","l","u","d","e">>)

\* 'INCLUDEPY': 'C:/buildroot/x86_64-1320-win32-seh-ucrt-rt_v11-rev0/mingw64/opt/include/python3.9'
V_INCLUDEPY ==
  StrV(
    <<"C",":","/","b","u","i","l","d","r","o","o","t","/","x","8","6","_","6","4","-","1","3",
      "2","0","-","w","i","n","3","2","-","s","e","h","-","u","c","r","t","-","r","t","_","v",
      "1","1","-","r","e","v","0","/","m","i","n","g","w","6","4","/","o","p","t","/","i","n",
      "c","l","u","d","e","/","p","y","t","h","o","n","3",".","9">>)

\* 'LIBDEST': 'C:/buildroot/x86_64-1320-win32-seh-ucrt-rt_v11-rev0/mingw64/opt/lib/python3.9'
V_LIBDEST ==
  StrV(
    <<"C",":","/","b","u","i","l","d","r","o","o","t","/","x","8","6","_","6","4","-","1","3",
      "2","0","-","w","i","n","3","2","-","s","e","h","-","u","c","r","t","-","r","t","_","v",
      "1","1","-","r","e","v","0","/","m","i","n","g","w","6","4","/","o","p","t","/","l","i",
      "b","/","p","y","t","h","o","n","3",".","9">>)

\* 'LIBDIR': 'C:/buildroot/x86_64-1320-win32-seh-ucrt-rt_v11-rev0/mingw64/opt/lib'
V_LIBDIR ==
  StrV(
    <<"C",":","/","b","u","i","l","d","r","o","o","t","/","x","8","6","_","6","4","-","1","3",
      "2","0","-","w","i","n","3","2","-","s","e","h","-","u","c","r","t","-","r","t","_","v",
      "1","1","-","r","e","v","0","/","m","i","n","g","w","6","4","/","o","p","t","/","l","i",
      "b">>)

\* 'LIBPC': 'C:/buildroot/x86_64-1320-win32-seh-ucrt-rt_v11-rev0/mingw64/opt/lib/pkgconfig'
V_LIBPC ==
  StrV(
    <<"C",":","/","b","u","i","l","d","r","o","o","t","/","x","8","6","_","6","4","-","1","3",
      "2","0","-","w","i","n","3","2","-","s","e","h","-","u","c","r","t","-","r","t","_","v",
      "1","1","-","r","e","v","0","/","m","i","n","g","w","6","4","/","o","p","t","/","l","i",
      "b","/","p","k","g","c","o","n","f","i","g">>)

\* 'LIBPL': 'C:/buildroot/x86_64-1320-win32-seh-ucrt-rt_v11-rev0/mingw64/opt/lib/python3.9/config-...'
V_LIBPL ==
  StrV(
    <<"C",":","/","b","u","i","l","d","r","o","o","t","/","x","8","6","_","6","4","-","1","3",
      "2","0","-","w","i","n","3","2","-","s","e","h","-","u","c","r","t","-","r","t","_","v",
      "1","1","-","r","e","v","0","/","m","i","n","g","w","6","4","/","o","p","t","/","l","i",
      "b","/","p","y","t","h","o","n","3",".","9","/","c","o","n","f","i","g","-","3",".","9">>)

\* 'MACHDESTLIB': 'C:/buildroot/x86_64-1320-win32-seh-ucrt-rt_v11-rev0/mingw64/opt/lib/python3.9'
V_MACHDESTLIB ==
  StrV(
    <<"C",":","/","b","u","i","l","d","r","o","o","t","/","x","8","6","_","6","4","-","1","3",
      "2","0","-","w","i","n","3","2","-","s","e","h","-","u","c","r","t","-","r","t","_","v",
      "1","1","-","r","e","v","0","/","m","i","n","g","w","6","4","/","o","p","t","/","l","i",
      "b","/","p","y","t","h","o","n","3",".","9">>)

\* 'MANDIR': 'C:/buildroot/x86_64-1320-win32-seh-ucrt-rt_v11-rev0/mingw64/opt/share/man'
V_MANDIR ==
  StrV(
    <<"C",":","/","b","u","i","l","d","r","o","o","t","/","x","8","6","_","6","4","-","1","3",
      "2","0","-","w","i","n","3","2","-","s","e","h","-","u","c","r","t","-","r","t","_","v",
      "1","1","-","r","e","v","0","/","m","i","n","g","w","6","4","/","o","p","t","/","s","h",
      "a","r","e","/","m","a","n">>)

\* 'SCRIPTDIR': 'C:/buildroot/x86_64-1320-win32-seh-ucrt-rt_v11-rev0/mingw64/opt/lib'
V_SCRIPTDIR ==
  StrV(
    <<"C",":","/","b","u","i","l","d","r","o","o","t","/","x","8","6","_","6","4","-","1","3",
      "2","0","-","w","i","n","3","2","-","s","e","h","-","u","c","r","t","-","r","t","_","v",
      "1","1","-","r","e","v","0","/","m","i","n","g","w","6","4","/","o","p","t","/","l","i",
      "b">>)

\* 'datarootdir': 'C:/buildroot/x86_64-1320-win32-seh-ucrt-rt_v11-rev0/mingw64/opt/share'
V_datarootdir ==
  StrV(
    <<"C",":","/","b","u","i","l","d","r","o","o","t","/","x","8","6","_","6","4","-","1","3",
      "2","0","-","w","i","n","3","2","-","s","e","h","-","u","c","r","t","-","r","t","_","v",
      "1","1","-","r","e","v","0","/","m","i","n","g","w","6","4","/","o","p","t","/","s","h",
      "a","r","e">>)

\* 'exec_prefix': 'C:/buildroot/x86_64-1320-win32-seh-ucrt-rt_v11-rev0/mingw64/opt'
V_exec_prefix ==
  StrV(
    <<"C",":","/","b","u","i","l","d","r","o","o","t","/","x","8","6","_","6","4","-","1","3",
      "2","0","-","w","i","n","3","2","-","s","e","h","-","u","c","r","t","-","r","t","_","v",
      "1","1","-","r","e","v","0","/","m","i","n","g","w","6","4","/","o","p","t">>)

\* 'TZPATH': 0, the way the table records a setting that was not configured.
V_TZPATH_unset == IntV(0)

\* 'TZPATH': '/usr/share/zoneinfo:/usr/lib/zoneinfo:/usr/share/lib/zoneinfo:/etc/zoneinfo'
V_TZPATH ==
  StrV(
    <<"/","u","s","r","/","s","h","a","r","e","/","z","o","n","e","i","n","f","o",":","/","u",
      "s","r","/","l","i","b","/","z","o","n","e","i","n","f","o",":","/","u","s","r","/","s",
      "h","a","r","e","/","l","i","b","/","z","o","n","e","i","n","f","o",":","/","e","t","c",
      "/","z","o","n","e","i","n","f","o">>)

\* 'prefix': 'C:/buildroot/x86_64-1320-win32-seh-ucrt-rt_v11-rev0/mingw64/opt'
V_prefix ==
  StrV(
    <<"C",":","/","b","u","i","l","d","r","o","o","t","/","x","8","6","_","6","4","-","1","3",
      "2","0","-","w","i","n","3","2","-","s","e","h","-","u","c","r","t","-","r","t","_","v",
      "1","1","-","r","e","v","0","/","m","i","n","g","w","6","4","/","o","p","t">>)

\* 'prefix_b2h': 'C:/buildroot/x86_64-1320-win32-seh-ucrt-rt_v11-rev0/mingw64/opt'
V_prefix_b2h ==
  StrV(
    <<"C",":","/","b","u","i","l","d","r","o","o","t","/","x","8","6","_","6","4","-","1","3",
      "2","0","-","w","i","n","3","2","-","s","e","h","-","u","c","r","t","-","r","t","_","v",
      "1","1","-","r","e","v","0","/","m","i","n","g","w","6","4","/","o","p","t">>)

\* 'VENVLAUNCHERDIR': 'C:/buildroot/x86_64-1320-win32-seh-ucrt-rt_v11-rev0/mingw64/opt/lib/python3.9/venv/sc...'
V_VENVLAUNCHERDIR ==
  StrV(
    <<"C",":","/","b","u","i","l","d","r","o","o","t","/","x","8","6","_","6","4","-","1","3",
      "2","0","-","w","i","n","3","2","-","s","e","h","-","u","c","r","t","-","r","t","_","v",
      "1","1","-","r","e","v","0","/","m","i","n","g","w","6","4","/","o","p","t","/","l","i",
      "b","/","p","y","t","h","o","n","3",".","9","/","v","e","n","v","/","s","c","r","i","p",
      "t","s","/","n","t">>)

\* 'LDFLAGS': '-pipe -fno-ident -L/c/buildroot/x86_64-1320-win32-seh-ucrt-rt_v11-rev0/mingw64/opt/li...'
V_LDFLAGS ==
  StrV(
    <<"-","p","i","p","e"," ","-","f","n","o","-","i","d","e","n","t"," ","-","L","/","c","/",
      "b","u","i","l","d","r","o","o","t","/","x","8","6","_","6","4","-","1","3","2","0","-",
      "w","i","n","3","2","-","s","e","h","-","u","c","r","t","-","r","t","_","v","1","1","-",
      "r","e","v","0","/","m","i","n","g","w","6","4","/","o","p","t","/","l","i","b"," ","-",
      "L","/","c","/","b","u","i","l","d","r","o","o","t","/","p","r","e","r","e","q","u","i",
      "s","i","t","e","s","/","x","8","6","_","6","4","-","z","l","i","b","-","s","t","a","t",
      "i","c","/","l","i","b"," ","-","L","/","c","/","b","u","i","l","d","r","o","o","t","/",
      "p","r","e","r","e","q","u","i","s","i","t","e","s","/","x","8","6","_","6","4","-","w",
      "6","4","-","m","i","n","g","w","3","2","-","s","t","a","t","i","c","/","l","i","b"," ",
      "-","L","C",":","/","b","u","i","l","d","r","o","o","t","/","p","r","e","r","e","q","u",
      "i","s","i","t","e","s","/","x","8","6","_","6","4","-","z","l","i","b","-","s","t","a",
      "t","i","c","/","l","i","b"," ","-","L","C",":","/","b","u","i","l","d","r","o","o","t",
      "/","x","8","6","_","6","4","-","1","3","2","0","-","w","i","n","3","2","-","s","e","h",
      "-","u","c","r","t","-","r","t","_","v","1","1","-","r","e","v","0","/","m","i","n","g",
      "w","6","4","/","o","p","t","/","l","i","b">>)

\* 'srcdir': 'C:/buildroot/src/Python-3.9.10'
V_srcdir ==
  StrV(
    <<"C",":","/","b","u","i","l","d","r","o","o","t","/","s","r","c","/","P","y","t","h","o",
      "n","-","3",".","9",".","1","0">>)

\* 'AR': 'ar'
V_AR ==
  StrV(
    <<"a","r">>)

\* 'ABIFLAGS': ''
V_ABIFLAGS ==
  StrV(
    <<>>)

\* 'SIZEOF_INT': 4
V_SIZEOF_INT == IntV(4)

\* 'WITH_DOC_STRINGS': 1
V_WITH_DOC_STRINGS == IntV(1)

\* The embedded literal, restricted to the keys listed above.
build_time_vars_literal ==
  ("BINDIR" :> V_BINDIR @@
   "BINLIBDEST" :> V_BINLIBDEST @@
   "CONFINCLUDEDIR" :> V_CONFINCLUDEDIR @@
   "CONFINCLUDEPY" :> V_CONFINCLUDEPY @@
   "DESTDIRS" :> V_DESTDIRS @@
   "DESTLIB" :> V_DESTLIB @@
   "DESTSHARED" :> V_DESTSHARED @@
   "INCLDIRSTOMAKE" :> V_INCLDIRSTOMAKE @@
   "INCLUDEDIR" :> V_INCLUDEDIR @@
   "INCLUDEPY" :> V_INCLUDEPY @@
   "LIBDEST" :> V_LIBDEST @@
   "LIBDIR" :> V_LIBDIR @@
   "LIBPC" :> V_LIBPC @@
   "LIBPL" :> V_LIBPL @@
   "MACHDESTLIB" :> V_MACHDESTLIB @@
   "MANDIR" :> V_MANDIR @@
   "SCRIPTDIR" :> V_SCRIPTDIR @@
   "datarootdir" :> V_datarootdir @@
   "exec_prefix" :> V_exec_prefix @@
   "TZPATH" :> V_TZPATH @@
   "prefix" :> V_prefix @@
   "prefix_b2h" :> V_prefix_b2h @@
   "VENVLAUNCHERDIR" :> V_VENVLAUNCHERDIR @@
   "LDFLAGS" :> V_LDFLAGS @@
   "srcdir" :> V_srcdir @@
   "AR" :> V_AR @@
   "ABIFLAGS" :> V_ABIFLAGS @@
   "SIZEOF_INT" :> V_SIZEOF_INT @@
   "WITH_DOC_STRINGS" :> V_WITH_DOC_STRINGS)

\* The list with 'LIBDIR' entered a second time in the place of 'LIBPC'.
keys_to_replace_dup ==
  << "BINDIR", "BINLIBDEST", "CONFINCLUDEDIR",
     "CONFINCLUDEPY", "DESTDIRS", "DESTLIB", "DESTSHARED",
     "INCLDIRSTOMAKE", "INCLUDEDIR", "INCLUDEPY",
     "LIBDEST", "LIBDIR", "LIBDIR", "LIBPL", "MACHDESTLIB",
     "MANDIR", "SCRIPTDIR", "datarootdir", "exec_prefix",
     "TZPATH" >>

\* keys_to_replace (lines 920-927), in list order.
keys_to_replace ==
  << "BINDIR", "BINLIBDEST", "CONFINCLUDEDIR",
     "CONFINCLUDEPY", "DESTDIRS", "DESTLIB", "DESTSHARED",
     "INCLDIRSTOMAKE", "INCLUDEDIR", "INCLUDEPY",
     "LIBDEST", "LIBDIR", "LIBPC", "LIBPL", "MACHDESTLIB",
     "MANDIR", "SCRIPTDIR", "datarootdir", "exec_prefix",
     "TZPATH" >>

ListedKeys == {keys_to_replace[n] : n \in 1..Len(keys_to_replace)}

(***************************************************************************)
(* Python str operations used by the loop.                                 *)
(***************************************************************************)

\* The width of the slice [:-4] of line 929.
SuffixLen == 4

\* The slice taken one character short, s[:-3].
SliceOffEnd_short(s) == SubSeq(s, 1, Len(s) - (SuffixLen - 1))

\* s[:-4]: s without its last 4 characters, the empty str when len(s) <= 4.
SliceOffEnd(s) == SubSeq(s, 1, Len(s) - SuffixLen)

\* sub in s
Contains(s, sub) ==
  \E p \in 0..(Len(s) - Len(sub)) : SubSeq(s, p + 1, p + Len(sub)) = sub

\* s.startswith(pre)
StartsWith(s, pre) == Len(pre) <= Len(s) /\ SubSeq(s, 1, Len(pre)) = pre

\* s.find(sub): the lowest index (from 0) at which sub occurs in s, or -1.
Find(s, sub) ==
  IF Contains(s, sub)
  THEN CHOOSE p \in 0..(Len(s) - Len(sub)) :
         /\ SubSeq(s, p + 1, p + Len(sub)) = sub
         /\ \A q \in 0..(p - 1) : SubSeq(s, q + 1, q + Len(sub)) # sub
  ELSE -1

\* s.count(sub): the number of non-overlapping occurrences, leftmost first.
RECURSIVE Count(_, _)
Count(s, sub) ==
  IF sub = <<>> THEN Len(s) + 1
  ELSE LET p == Find(s, sub) IN
       IF p = -1 THEN 0
       ELSE 1 + Count(SubSeq(s, p + Len(sub) + 1, Len(s)), sub)

\* An empty old taken as "nothing to replace": s unchanged.
Interleave_skip(s, new) == s

\* s.replace('', new): new before each character of s and once at the end.
Interleave(s, new) ==
  LET b == Len(new) + 1 IN
  [n \in 1..(Len(s) * b + Len(new)) |->
     IF (n - 1) % b < Len(new) THEN new[((n - 1) % b) + 1]
     ELSE s[((n - 1) \div b) + 1]]

\* A single-occurrence replace, s.replace(old, new, 1).
ReplaceFirst(s, old, new) ==
  LET p == Find(s, old) IN
  IF p = -1 THEN s
  ELSE SubSeq(s, 1, p) \o new \o SubSeq(s, p + Len(old) + 1, Len(s))

\* s.replace(old, new): every non-overlapping occurrence of old, leftmost
\* first, becomes new; an empty old matches before each character and at the
\* end.
RECURSIVE str_replace(_, _, _)
str_replace(s, old, new) ==
  IF old = <<>> THEN Interleave(s, new)
  ELSE LET p == Find(s, old) IN
       IF p = -1 THEN s
       ELSE SubSeq(s, 1, p) \o new
              \o str_replace(SubSeq(s, p + Len(old) + 1, Len(s)), old, new)

(***************************************************************************)
(* Inputs.  The program's own mapping is build_time_vars_literal; the      *)
(* other mappings are the ones the specification's scenarios and error     *)
(* cases speak of, and small mappings over a two-letter alphabet that      *)
(* exercise str.replace on every short value.                              *)
(***************************************************************************)

\* The longest value of a listed key in a small mapping.
MaxValLen == 4

\* The longest build-time prefix of a small mapping, and the longest
\* runtime prefix over the small alphabet.
MaxPrefixLen == 2

Alphabet == {"a", "b"}

\* All strings over the alphabet of at most n characters.
Strs(n) == UNION {[1..m -> Alphabet] : m \in 0..n}

\* "/bin"
BinSuffix == <<"/","b","i","n">>

\* The mapping of the specification's scenarios: reference value
\* "/opt/app/bin", listed values "/opt/app/lib/app3.9" and
\* "/opt/app/include -I/opt/app/include2", and an unlisted compiler flag.
ScenarioVars ==
  [k \in ListedKeys \cup {"CFLAGS"} |->
     IF k = "BINDIR" THEN StrV(<<"/","o","p","t","/","a","p","p","/","b","i","n">>)
     ELSE IF k = "INCLUDEPY"
          THEN StrV(<<"/","o","p","t","/","a","p","p","/","i","n","c","l","u","d","e"," ","-","I","/","o","p","t","/","a","p","p","/","i","n","c","l","u","d","e","2">>)
     ELSE IF k = "CFLAGS" THEN StrV(<<"-","O","2"," ","-","I","/","o","p","t","/","a","p","p","/","i","n","c","l","u","d","e">>)
     ELSE StrV(<<"/","o","p","t","/","a","p","p","/","l","i","b","/","a","p","p","3",".","9">>)]

\* The runtime prefix of the specification's scenario, "/usr/local".
ScenarioPrefix == <<"/","u","s","r","/","l","o","c","a","l">>

\* A small mapping: BINDIR is bindir, every other listed key holds v, and
\* the unlisted keys hold v and an int.
SmallVars(bindir, v) ==
  [k \in ListedKeys \cup {"prefix", "SIZEOF_INT"} |->
     IF k = "BINDIR" THEN StrV(bindir)
     ELSE IF k = "SIZEOF_INT" THEN IntV(4)
     ELSE StrV(v)]

\* Reference values: a build-time prefix followed by "/bin", and values of
\* at most 4 characters.
SmallBindirs ==
  {old \o BinSuffix : old \in Strs(MaxPrefixLen)} \cup {<<"b","i","n">>, <<"a","b">>}

SmallMappings == {SmallVars(bd, v) : bd \in SmallBindirs, v \in Strs(MaxValLen)}

\* m without key k.
Without(m, k) == [x \in DOMAIN m \ {k} |-> m[x]]

\* Mappings with the reference entry or a listed entry absent or an int.
FaultyMappings ==
  { Without(build_time_vars_literal, "BINDIR"),
    [build_time_vars_literal EXCEPT !["BINDIR"] = IntV(0)],
    Without(build_time_vars_literal, "LIBPC"),
    [build_time_vars_literal EXCEPT !["TZPATH"] = IntV(0)] }

Mappings ==
  {build_time_vars_literal, ScenarioVars} \cup SmallMappings \cup FaultyMappings

\* A relocated installation's sys.prefix, "D:/Python39".
RelocatedPrefix == <<"D",":","/","P","y","t","h","o","n","3","9">>

\* Values of sys.prefix: a relocated installation, the build-time prefix
\* itself (not relocated), a directory below the build-time prefix, the
\* scenario's prefix, and every short string over the alphabet.
SysPrefixes ==
  { RelocatedPrefix,
    V_prefix.s,
    V_prefix.s \o <<"/","v","e","n","v">>,
    ScenarioPrefix } \cup Strs(MaxPrefixLen)

(***************************************************************************)
(* State.                                                                  *)
(***************************************************************************)
VARIABLES
  build_time_vars,  \* the module-level dict, mutated in place by the loop
  embedded,         \* the dict literal as written (never assigned again)
  sys_prefix,       \* sys.prefix, the ambient runtime prefix
  prefix,           \* the module-level name prefix (old_prefix), once bound
  pc,               \* "derive" (line 929), "loop" (931-933), "done", "error"
  idx,              \* the position of the for loop in keys_to_replace
  error,            \* the exception that ended the load, or "none"
  order,            \* the sequence the for loop iterates over
  writes            \* how many times each listed key has been assigned

vars ==
  <<build_time_vars, embedded, sys_prefix, prefix, pc, idx, error, order,
    writes>>

\* The name prefix is unbound until line 929 has run.
Unbound == [type |-> "unbound"]

Init ==
  /\ embedded \in Mappings
  /\ build_time_vars = embedded
  /\ sys_prefix \in SysPrefixes
  /\ prefix = Unbound
  /\ pc = "derive"
  /\ idx = 0
  /\ error = "none"
  /\ order = keys_to_replace
  /\ writes = [k \in ListedKeys |-> 0]

\* An uncaught exception ends the module's execution.
Raise(exc) ==
  /\ pc' = "error"
  /\ error' = exc
  /\ UNCHANGED <<build_time_vars, embedded, sys_prefix, prefix, idx, order,
                 writes>>

\* prefix = build_time_vars.get('BINDIR', '')[:-4]: a missing reference
\* entry read as the empty str.
DerivePrefix_get ==
  /\ pc = "derive"
  /\ prefix' = (IF "BINDIR" \in DOMAIN build_time_vars
                THEN StrV(SliceOffEnd(build_time_vars["BINDIR"].s))
                ELSE StrV(<<>>))
  /\ pc' = "loop"
  /\ idx' = 1
  /\ UNCHANGED <<build_time_vars, embedded, sys_prefix, error, order, writes>>

\* Line 929: prefix = build_time_vars['BINDIR'][:-4]
DerivePrefix ==
  /\ pc = "derive"
  /\ \/ /\ "BINDIR" \notin DOMAIN build_time_vars
        /\ Raise("KeyError")
     \/ /\ "BINDIR" \in DOMAIN build_time_vars
        /\ ~IsStr(build_time_vars["BINDIR"])
        /\ Raise("TypeError")
     \/ /\ "BINDIR" \in DOMAIN build_time_vars
        /\ IsStr(build_time_vars["BINDIR"])
        /\ prefix' = StrV(SliceOffEnd(build_time_vars["BINDIR"].s))
        /\ pc' = "loop"
        /\ idx' = 1
        /\ UNCHANGED <<build_time_vars, embedded, sys_prefix, error, order, writes>>

\* The list with 'prefix' written where 'exec_prefix' stands.
KeyAt_prefix(n) ==
  IF order[n] = "exec_prefix" THEN "prefix" ELSE order[n]

\* The key the for loop of line 931 binds at position n.
KeyAt(n) == order[n]

\* value.replace(prefix, sys.prefix, 1): only the first occurrence.
Rewritten_first_only(value) ==
  StrV(ReplaceFirst(value.s, prefix.s, sys_prefix))

\* value.replace(sys.prefix, prefix): the arguments exchanged.
Rewritten_swapped(value) == StrV(str_replace(value.s, sys_prefix, prefix.s))

\* sys.prefix + value[len(prefix):]: relocation by slicing.
Rewritten_by_slicing(value) ==
  StrV(sys_prefix \o SubSeq(value.s, Len(prefix.s) + 1, Len(value.s)))

\* value.replace(build_time_vars['BINDIR'][:-4], sys.prefix): old_prefix
\* derived anew from the current BINDIR value at every iteration.
Rewritten_live_prefix(value) ==
  StrV(str_replace(value.s, SliceOffEnd(build_time_vars["BINDIR"].s),
                   sys_prefix))

\* value.replace(prefix, sys.prefix).encode(): a bytes object stored back.
Rewritten_bytes(value) ==
  [type |-> "bytes", s |-> str_replace(value.s, prefix.s, sys_prefix)]

\* Line 933: the value stored back under the key.
Rewritten(value) == StrV(str_replace(value.s, prefix.s, sys_prefix))

\* if key in build_time_vars and isinstance(value, str): a loop that passes
\* over the keys it cannot rewrite.
RewriteKey_skip ==
  /\ pc = "loop"
  /\ idx <= Len(order)
  /\ LET key == KeyAt(idx) IN
     /\ IF key \in DOMAIN build_time_vars /\ IsStr(build_time_vars[key])
        THEN /\ build_time_vars' =
                  [build_time_vars EXCEPT
                     ![key] = StrV(str_replace(build_time_vars[key].s,
                                               prefix.s, sys_prefix))]
             /\ writes' = [writes EXCEPT ![key] = @ + 1]
        ELSE UNCHANGED <<build_time_vars, writes>>
     /\ idx' = idx + 1
     /\ UNCHANGED <<embedded, sys_prefix, prefix, pc, error, order>>

\* Lines 931-933, one iteration:
\*   value = build_time_vars[key]
\*   build_time_vars[key] = value.replace(prefix, sys.prefix)
RewriteKey ==
  /\ pc = "loop"
  /\ idx <= Len(order)
  /\ LET key == KeyAt(idx) IN
     \/ /\ key \notin DOMAIN build_time_vars
        /\ Raise("KeyError")
     \/ /\ key \in DOMAIN build_time_vars
        /\ ~IsStr(build_time_vars[key])
        /\ Raise("AttributeError")
     \/ /\ key \in DOMAIN build_time_vars
        /\ IsStr(build_time_vars[key])
        /\ build_time_vars' =
             [build_time_vars EXCEPT ![key] = Rewritten(build_time_vars[key])]
        /\ writes' = [writes EXCEPT ![key] = @ + 1]
        /\ idx' = idx + 1
        /\ UNCHANGED <<embedded, sys_prefix, prefix, pc, error, order>>

\* Line 931: the list is exhausted and the module has finished loading.
LoopExit ==
  /\ pc = "loop"
  /\ idx > Len(order)
  /\ pc' = "done"
  /\ UNCHANGED <<build_time_vars, embedded, sys_prefix, prefix, idx, error,
                 order, writes>>

Next == DerivePrefix \/ RewriteKey \/ LoopExit

Spec == Init /\ [][Next]_vars

(***************************************************************************)
(* The same load with the list taken in another order: every rotation of   *)
(* keys_to_replace and its reverse, so that BINDIR is rewritten first, last *)
(* and at every position between.                                          *)
(***************************************************************************)

Rotate(s, r) == [n \in 1..Len(s) |-> s[((n - 1 + r) % Len(s)) + 1]]

Reverse(s) == [n \in 1..Len(s) |-> s[Len(s) + 1 - n]]

Orders ==
  LET rotations ==
        {Rotate(keys_to_replace, r) : r \in 0..(Len(keys_to_replace) - 1)}
  IN  rotations \cup {Reverse(o) : o \in rotations}

\* The embedded table, the scenario mapping and the small mappings with
\* prefixes and values of at most one character.
OrderMappings ==
  {build_time_vars_literal, ScenarioVars}
    \cup {SmallVars(old \o BinSuffix, v) : old \in Strs(1), v \in Strs(1)}

InitOrder ==
  /\ embedded \in OrderMappings
  /\ build_time_vars = embedded
  /\ sys_prefix \in SysPrefixes
  /\ prefix = Unbound
  /\ pc = "derive"
  /\ idx = 0
  /\ error = "none"
  /\ order \in Orders
  /\ writes = [k \in ListedKeys |-> 0]

SpecOrder == InitOrder /\ [][Next]_vars

TypeOK ==
  /\ pc \in {"derive", "loop", "done", "error"}
  /\ idx \in 0..(Len(keys_to_replace) + 1)
  /\ error \in {"none", "KeyError", "TypeError", "AttributeError"}
  /\ DOMAIN build_time_vars = DOMAIN embedded

(***************************************************************************)
(* Properties.                                                             *)
(***************************************************************************)

\* old_prefix as the specification defines it: the reference entry of the
\* embedded mapping without its last 4 characters.
OrigOldPrefix ==
  LET b == embedded["BINDIR"].s IN SubSeq(b, 1, Len(b) - 4)

\* The entries of the embedded table that are not listed and start with the
\* build-time prefix.
UnlistedPrefixed == {"prefix", "prefix_b2h", "VENVLAUNCHERDIR"}

\* C1: once the load has completed, every key of keys_to_replace holds its
\* embedded value with every occurrence of old_prefix replaced by sys.prefix;
\* in the scenario ("/opt/app/bin", "/opt/app/lib/app3.9", "/usr/local") the
\* listed value is "/usr/local/lib/app3.9".
C1_ListedRewritten ==
  pc = "done" =>
    /\ \A k \in ListedKeys :
         build_time_vars[k] =
           StrV(str_replace(embedded[k].s, OrigOldPrefix, sys_prefix))
    /\ (embedded = ScenarioVars /\ sys_prefix = ScenarioPrefix) =>
         build_time_vars["LIBDEST"] = StrV(<<"/","u","s","r","/","l","o","c","a","l","/","l","i","b","/","a","p","p","3",".","9">>)

C1_Witness ==
  /\ pc = "done"
  /\ embedded = ScenarioVars
  /\ sys_prefix = ScenarioPrefix
  /\ build_time_vars["LIBDEST"] = StrV(<<"/","u","s","r","/","l","o","c","a","l","/","l","i","b","/","a","p","p","3",".","9">>)
  /\ build_time_vars["LIBDEST"] # embedded["LIBDEST"]

\* C2: in every state of the load, whatever sys.prefix is, every key that is
\* not in keys_to_replace holds the value the embedded literal gave it.
C2_UnlistedUntouched ==
  \A k \in DOMAIN embedded \ ListedKeys :
    k \in DOMAIN build_time_vars /\ build_time_vars[k] = embedded[k]

C2_Witness ==
  /\ pc = "done"
  /\ embedded = build_time_vars_literal
  /\ sys_prefix = RelocatedPrefix
  /\ build_time_vars["LDFLAGS"] = V_LDFLAGS
  /\ Contains(V_LDFLAGS.s, prefix.s)
  /\ build_time_vars["exec_prefix"] = StrV(RelocatedPrefix)

\* C3, as claimed: after the load every entry whose embedded value started
\* with old_prefix starts with sys.prefix, the unlisted entries prefix,
\* prefix_b2h and VENVLAUNCHERDIR included.
C3_AllPrefixedRelocated ==
  pc = "done" =>
    \A k \in DOMAIN embedded :
      (IsStr(embedded[k]) /\ StartsWith(embedded[k].s, prefix.s)) =>
        StartsWith(build_time_vars[k].s, sys_prefix)

\* C3, amended: after the load every key of keys_to_replace whose embedded
\* value started with old_prefix starts with sys.prefix; the unlisted
\* entries prefix, prefix_b2h and VENVLAUNCHERDIR of the embedded table keep
\* their build-time value.
C3_ListedPrefixedRelocated ==
  pc = "done" =>
    /\ \A k \in ListedKeys :
         StartsWith(embedded[k].s, OrigOldPrefix) =>
           StartsWith(build_time_vars[k].s, sys_prefix)
    /\ embedded = build_time_vars_literal =>
         \A k \in UnlistedPrefixed :
           /\ StartsWith(embedded[k].s, OrigOldPrefix)
           /\ build_time_vars[k] = embedded[k]

C3_Witness ==
  /\ pc = "done"
  /\ embedded = build_time_vars_literal
  /\ sys_prefix = RelocatedPrefix
  /\ StartsWith(build_time_vars["LIBPL"].s, RelocatedPrefix)
  /\ ~StartsWith(build_time_vars["VENVLAUNCHERDIR"].s, RelocatedPrefix)
  /\ build_time_vars["prefix"] = V_prefix

\* C4: once bound, old_prefix is the embedded BINDIR value without its last
\* 4 characters (the segment "/bin" where BINDIR ends with it); for the
\* embedded table it is the value of the entry 'prefix'.
C4_OldPrefixDerived ==
  prefix # Unbound =>
    LET b == embedded["BINDIR"].s IN
    /\ IsStr(prefix)
    /\ Len(prefix.s) = (IF Len(b) > 4 THEN Len(b) - 4 ELSE 0)
    /\ StartsWith(b, prefix.s)
    /\ Len(b) >= 4 => prefix.s \o SubSeq(b, Len(b) - 3, Len(b)) = b
    /\ embedded = build_time_vars_literal =>
         /\ prefix.s \o BinSuffix = b
         /\ prefix = embedded["prefix"]

C4_Witness ==
  /\ pc = "loop"
  /\ embedded = build_time_vars_literal
  /\ prefix = V_prefix
  /\ build_time_vars["BINDIR"] = StrV(sys_prefix \o BinSuffix)

\* C5: the replacement is neither single-occurrence nor anchored: a listed
\* value that holds old_prefix n > 1 times (DESTDIRS and INCLDIRSTOMAKE hold
\* it 4 times) has all n occurrences replaced, so its length changes by n
\* times the difference of the prefixes' lengths and it holds sys.prefix at
\* least n times.
C5_AllOccurrencesReplaced ==
  pc = "done" =>
    /\ \A k \in ListedKeys :
         LET n == Count(embedded[k].s, OrigOldPrefix) IN
         n > 1 =>
           /\ Len(build_time_vars[k].s) =
                Len(embedded[k].s) + n * (Len(sys_prefix) - Len(OrigOldPrefix))
           /\ sys_prefix # <<>> => Count(build_time_vars[k].s, sys_prefix) >= n
           /\ sys_prefix # OrigOldPrefix =>
                build_time_vars[k].s #
                  ReplaceFirst(embedded[k].s, OrigOldPrefix, sys_prefix)
    /\ embedded = build_time_vars_literal =>
         /\ Count(embedded["DESTDIRS"].s, OrigOldPrefix) = 4
         /\ Count(embedded["INCLDIRSTOMAKE"].s, OrigOldPrefix) = 4

C5_Witness ==
  /\ pc = "done"
  /\ embedded = build_time_vars_literal
  /\ sys_prefix = RelocatedPrefix
  /\ Count(build_time_vars["DESTDIRS"].s, RelocatedPrefix) = 4
  /\ Count(build_time_vars["INCLDIRSTOMAKE"].s, RelocatedPrefix) = 4
  /\ ~Contains(build_time_vars["DESTDIRS"].s, prefix.s)

\* C6: a listed value that does not hold old_prefix (TZPATH in the embedded
\* table) is never changed by the load, whatever sys.prefix is, and no
\* exception is raised at the iteration of a key that holds a str.
C6_AbsentPrefixNoOp ==
  /\ prefix # Unbound =>
       \A k \in ListedKeys \cap DOMAIN embedded :
         (IsStr(embedded[k]) /\ ~Contains(embedded[k].s, OrigOldPrefix)) =>
           build_time_vars[k] = embedded[k]
  /\ (pc = "error" /\ idx >= 1) =>
       ~(KeyAt(idx) \in DOMAIN embedded /\ IsStr(embedded[KeyAt(idx)]))
  /\ embedded = build_time_vars_literal =>
       /\ ~Contains(embedded["TZPATH"].s, OrigOldPrefix)
       /\ pc # "error"

C6_Witness ==
  /\ pc = "done"
  /\ embedded = build_time_vars_literal
  /\ sys_prefix = RelocatedPrefix
  /\ ~Contains(V_TZPATH.s, prefix.s)
  /\ build_time_vars["TZPATH"] = V_TZPATH
  /\ build_time_vars["MANDIR"] # V_MANDIR

\* old_prefix and sys.prefix overlap textually: one holds the other, or a
\* non-empty end of one is a beginning of the other.
Overlap(old, new) ==
  \/ Contains(new, old)
  \/ Contains(old, new)
  \/ \E n \in 1..Len(old) :
       n <= Len(new) /\
       \/ SubSeq(old, 1, n) = SubSeq(new, Len(new) - n + 1, Len(new))
       \/ SubSeq(new, 1, n) = SubSeq(old, Len(old) - n + 1, Len(old))

\* C7, as claimed: after the load no listed value holds old_prefix, unless
\* sys.prefix itself holds old_prefix.
C7_NoOldPrefixLeft ==
  pc = "done" =>
    \A k \in ListedKeys :
      Contains(build_time_vars[k].s, prefix.s) => Contains(sys_prefix, prefix.s)

\* C7, amended: after the load no listed value holds old_prefix, unless
\* sys.prefix and old_prefix overlap textually (one holds the other, which
\* includes an empty sys.prefix, or a non-empty end of one is a beginning of
\* the other).
C7_NoOldPrefixLeftUnlessOverlap ==
  pc = "done" =>
    \A k \in ListedKeys :
      Contains(build_time_vars[k].s, OrigOldPrefix) =>
        Overlap(OrigOldPrefix, sys_prefix)

C7_Witness ==
  /\ pc = "done"
  /\ embedded = build_time_vars_literal
  /\ sys_prefix = RelocatedPrefix
  /\ ~Overlap(prefix.s, sys_prefix)
  /\ \A k \in ListedKeys : ~Contains(build_time_vars[k].s, prefix.s)
  /\ \E k \in ListedKeys : Count(embedded[k].s, prefix.s) > 1

\* C8, as claimed: when sys.prefix does not hold old_prefix, rewriting the
\* listed values a second time with the same pair of prefixes changes
\* nothing.
C8_Idempotent ==
  pc = "done" =>
    (~Contains(sys_prefix, prefix.s) =>
       \A k \in ListedKeys :
         str_replace(build_time_vars[k].s, prefix.s, sys_prefix) =
           build_time_vars[k].s)

\* C8, amended: when sys.prefix and old_prefix do not overlap textually,
\* rewriting the listed values a second time with the same pair of prefixes
\* changes nothing.
C8_IdempotentUnlessOverlap ==
  pc = "done" =>
    (~Overlap(OrigOldPrefix, sys_prefix) =>
       \A k \in ListedKeys :
         /\ str_replace(build_time_vars[k].s, OrigOldPrefix, sys_prefix) =
              build_time_vars[k].s
         /\ Find(build_time_vars[k].s, OrigOldPrefix) = -1)

C8_Witness ==
  /\ pc = "done"
  /\ embedded \in SmallMappings
  /\ prefix.s # <<>>
  /\ ~Overlap(prefix.s, sys_prefix)
  /\ \E k \in ListedKeys :
       /\ build_time_vars[k] # embedded[k]
       /\ Count(embedded[k].s, prefix.s) > 1
       /\ str_replace(build_time_vars[k].s, prefix.s, sys_prefix) =
            build_time_vars[k].s

\* C9, as claimed: in the embedded table old_prefix is a literal prefix of
\* the value of every key of keys_to_replace.
C9_PrefixOfEveryListed ==
  (embedded = build_time_vars_literal /\ prefix # Unbound) =>
    \A k \in ListedKeys : StartsWith(embedded[k].s, prefix.s)

\* C9, amended: in the embedded table old_prefix is a literal prefix of the
\* value of every key of keys_to_replace except TZPATH, whose value does not
\* hold old_prefix at all.
C9_PrefixOfEveryListedButTZPATH ==
  (embedded = build_time_vars_literal /\ prefix # Unbound) =>
    /\ \A k \in ListedKeys \ {"TZPATH"} : StartsWith(embedded[k].s, prefix.s)
    /\ ~Contains(embedded["TZPATH"].s, prefix.s)

C9_Witness ==
  /\ pc = "loop"
  /\ embedded = build_time_vars_literal
  /\ prefix = V_exec_prefix
  /\ StartsWith(V_SCRIPTDIR.s, prefix.s)
  /\ ~StartsWith(V_TZPATH.s, prefix.s)

\* C10: when the reference entry BINDIR is absent, the load fails with a
\* KeyError at the derivation of old_prefix: the loop is never entered,
\* old_prefix is never bound and no entry of the mapping is modified.
C10_MissingReferenceFatal ==
  "BINDIR" \notin DOMAIN embedded =>
    /\ pc \in {"derive", "error"}
    /\ pc = "error" => error = "KeyError"
    /\ idx = 0
    /\ prefix = Unbound
    /\ build_time_vars = embedded

C10_Witness ==
  /\ "BINDIR" \notin DOMAIN embedded
  /\ pc = "error"
  /\ error = "KeyError"
  /\ build_time_vars = embedded

\* BINDIR and every key of keys_to_replace are present with a str value.
AllListedStr ==
  \A k \in ListedKeys \cup {"BINDIR"} :
    k \in DOMAIN embedded /\ IsStr(embedded[k])

\* The keys the loop has passed, and the keys it has not.
Passed == {order[n] : n \in 1..(idx - 1)}

\* C11, as claimed: a mapping that holds BINDIR never ends the load in an
\* error.
C11_NoErrorWithBINDIR ==
  "BINDIR" \in DOMAIN embedded => pc # "error"

\* C11, amended: a mapping in which BINDIR and every listed key hold a str
\* loads without an error (for the scenario mapping the load is seen to
\* have a next step in every state before it is done); a mapping with a listed key absent or an int never completes: the
\* load stops at that key with a KeyError or an AttributeError (at the
\* derivation with a TypeError when BINDIR is an int), the listed keys
\* before it rewritten once and the others untouched.
C11_ErrorOnlyAtAbsentOrInt ==
  /\ AllListedStr =>
       /\ pc # "error"
       /\ (pc \in {"derive", "loop"} /\ embedded = ScenarioVars) =>
            ENABLED Next
  /\ pc = "done" => AllListedStr
  /\ (pc = "error" /\ idx = 0) =>
       /\ build_time_vars = embedded
       /\ \/ "BINDIR" \notin DOMAIN embedded /\ error = "KeyError"
          \/ /\ "BINDIR" \in DOMAIN embedded
             /\ ~IsStr(embedded["BINDIR"])
             /\ error = "TypeError"
  /\ (pc = "error" /\ idx >= 1) =>
       /\ \/ KeyAt(idx) \notin DOMAIN embedded /\ error = "KeyError"
          \/ /\ KeyAt(idx) \in DOMAIN embedded
             /\ ~IsStr(embedded[KeyAt(idx)])
             /\ error = "AttributeError"
       /\ \A k \in Passed : writes[k] = 1
       /\ \A k \in ListedKeys \ Passed :
            /\ writes[k] = 0
            /\ k \in DOMAIN embedded => build_time_vars[k] = embedded[k]

C11_Witness ==
  /\ pc = "error"
  /\ error = "KeyError"
  /\ "BINDIR" \in DOMAIN embedded
  /\ KeyAt(idx) = "LIBPC"
  /\ sys_prefix = RelocatedPrefix
  /\ build_time_vars["LIBDIR"] # embedded["LIBDIR"]
  /\ build_time_vars["LIBPL"] = embedded["LIBPL"]

\* The mapping the load ends with, as a function of the embedded mapping
\* and sys.prefix alone.
FinalMapping ==
  [k \in DOMAIN embedded |->
     IF k \in ListedKeys
     THEN StrV(str_replace(embedded[k].s, OrigOldPrefix, sys_prefix))
     ELSE embedded[k]]

\* C12: the mapping the load ends with does not depend on the order in which
\* the keys of keys_to_replace are taken: under every order (BINDIR first,
\* last or in the middle) it is the same function of the embedded mapping
\* and sys.prefix, each listed key is written once, and before the end the
\* keys not yet passed hold their embedded value.
C12_OrderIndependent ==
  /\ pc = "done" => build_time_vars = FinalMapping
  /\ pc = "loop" =>
       \A k \in DOMAIN embedded :
         build_time_vars[k] =
           (IF k \in Passed THEN FinalMapping[k] ELSE embedded[k])

C12_Witness ==
  /\ pc = "done"
  /\ embedded = build_time_vars_literal
  /\ sys_prefix = RelocatedPrefix
  /\ order[10] = "BINDIR"
  /\ order[9] = "TZPATH"
  /\ build_time_vars["BINDIR"] = StrV(RelocatedPrefix \o BinSuffix)
  /\ build_time_vars["exec_prefix"] = StrV(RelocatedPrefix)

\* C13: during one load every listed key is assigned at most once and one
\* key per iteration; the loop makes one pass (the position never passes
\* the end of the list, the load finishes when the list is exhausted, and
\* for the scenario mapping every iteration is seen to have a next step);
\* once the pass has finished every listed key has been assigned
\* exactly once and no further step exists, so the mapping never changes
\* again.
C13_OnePassThenStable ==
  /\ \A k \in ListedKeys : writes[k] <= 1
  /\ idx <= Len(order) + 1
  /\ pc = "loop" =>
       /\ Cardinality({k \in ListedKeys : writes[k] = 1}) = idx - 1
       /\ (idx = Len(order) + 1 \/ embedded = ScenarioVars) => ENABLED Next
  /\ pc = "done" =>
       /\ \A k \in ListedKeys : writes[k] = 1
       /\ idx = Len(order) + 1
       /\ ~ENABLED Next

C13_Witness ==
  /\ pc = "done"
  /\ embedded = build_time_vars_literal
  /\ sys_prefix = RelocatedPrefix
  /\ \A k \in ListedKeys : writes[k] = 1
  /\ build_time_vars # embedded
  /\ ~ENABLED Next

\* C14: old_prefix is bound once, from the BINDIR value of the embedded
\* mapping, and keeps that value while the loop runs: after BINDIR, the
\* first key, has itself been rewritten, every key the loop has passed holds
\* its embedded value rewritten with that same old_prefix.
C14_OldPrefixFixed ==
  prefix # Unbound =>
    /\ prefix = StrV(OrigOldPrefix)
    /\ order[1] = "BINDIR"
    /\ \A n \in 1..(idx - 1) :
         build_time_vars[order[n]].s =
           str_replace(embedded[order[n]].s, OrigOldPrefix, sys_prefix)

C14_Witness ==
  /\ pc = "loop"
  /\ idx = 3
  /\ embedded = build_time_vars_literal
  /\ sys_prefix = RelocatedPrefix
  /\ prefix = V_prefix
  /\ SliceOffEnd(build_time_vars["BINDIR"].s) = RelocatedPrefix
  /\ build_time_vars["BINLIBDEST"] # embedded["BINLIBDEST"]
  /\ StartsWith(build_time_vars["BINLIBDEST"].s, RelocatedPrefix)

\* C15: when the BINDIR value has 4 or fewer characters, old_prefix is the
\* empty str, the load does not fail, and every listed value v ends as
\* sys.prefix before each character of v and once more at the end; with a
\* non-empty sys.prefix every listed value, an empty one included, changes.
C15_EmptyOldPrefixInterleaves ==
  ("BINDIR" \in DOMAIN embedded /\ IsStr(embedded["BINDIR"])
     /\ Len(embedded["BINDIR"].s) <= 4) =>
    /\ prefix # Unbound => prefix = StrV(<<>>)
    /\ AllListedStr => pc # "error"
    /\ pc = "done" =>
         \A k \in ListedKeys :
           LET v == embedded[k].s
               r == build_time_vars[k].s
               b == Len(sys_prefix) + 1
           IN  /\ Len(r) = Len(v) * b + Len(sys_prefix)
               /\ \A j \in 0..Len(v) :
                    SubSeq(r, j * b + 1, j * b + Len(sys_prefix)) = sys_prefix
               /\ \A n \in 1..Len(v) : r[n * b] = v[n]
               /\ sys_prefix # <<>> => r # v

C15_Witness ==
  /\ pc = "done"
  /\ embedded["BINDIR"] = StrV(<<"b", "i", "n">>)
  /\ embedded["LIBDIR"] = StrV(<<"b">>)
  /\ sys_prefix = <<"a", "b">>
  /\ prefix = StrV(<<>>)
  /\ build_time_vars["LIBDIR"] = StrV(<<"a", "b", "b", "a", "b">>)
  /\ build_time_vars["BINDIR"] =
       StrV(<<"a", "b", "b", "a", "b", "i", "a", "b", "n", "a", "b">>)

\* C16: the embedded table holds every one of the 20 keys of keys_to_replace
\* (BINDIR among them) with a str value, and loading it never raises,
\* whatever sys.prefix is: the load goes through the whole list and ends
\* done.
C16_EmbeddedLoads ==
  embedded = build_time_vars_literal =>
    /\ Len(keys_to_replace) = 20
    /\ Cardinality(ListedKeys) = 20
    /\ "BINDIR" \in ListedKeys
    /\ \A k \in ListedKeys :
         /\ k \in DOMAIN build_time_vars_literal
         /\ IsStr(build_time_vars_literal[k])
         /\ IsStr(build_time_vars[k])
    /\ error = "none"
    /\ pc \in {"derive", "loop", "done"}
    /\ (pc = "loop" /\ idx = Len(order) + 1) => ENABLED LoopExit

C16_Witness ==
  /\ pc = "done"
  /\ error = "none"
  /\ embedded = build_time_vars_literal
  /\ sys_prefix = <<"a">>
  /\ idx = 21
  /\ build_time_vars["TZPATH"] = V_TZPATH
  /\ build_time_vars["exec_prefix"] = StrV(<<"a">>)

\* C17: in every state of the load the keys of build_time_vars are the keys
\* of the embedded literal, none added and none removed, and every entry
\* keeps its type: a listed key that held a str still holds a str.
C17_KeySetPreserved ==
  /\ DOMAIN build_time_vars = DOMAIN embedded
  /\ \A k \in DOMAIN embedded : build_time_vars[k].type = embedded[k].type
  /\ \A k \in ListedKeys \cap DOMAIN embedded :
       IsStr(embedded[k]) => IsStr(build_time_vars[k])

C17_Witness ==
  /\ pc = "done"
  /\ embedded = build_time_vars_literal
  /\ sys_prefix = ScenarioPrefix
  /\ build_time_vars # embedded
  /\ DOMAIN build_time_vars = DOMAIN build_time_vars_literal
  /\ ListedKeys \subseteq DOMAIN build_time_vars
  /\ \A k \in ListedKeys : IsStr(build_time_vars[k])

\* C18: when sys.prefix equals a non-empty old_prefix (the installation was
\* not relocated), the load leaves the whole mapping as the embedded literal
\* gave it, in every state.
C18_NotRelocatedIdentity ==
  (prefix # Unbound /\ prefix.s # <<>> /\ sys_prefix = prefix.s) =>
    build_time_vars = embedded

C18_Witness ==
  /\ pc = "done"
  /\ embedded = build_time_vars_literal
  /\ sys_prefix = V_prefix.s
  /\ prefix = V_prefix
  /\ \A k \in ListedKeys : writes[k] = 1
  /\ build_time_vars = build_time_vars_literal

====
